---- MODULE Spec2Model ----
(***************************************************************************)
(* Model of the full-text indexer (src/unnamed/part_003): the S3 handler   *)
(* processEvent with esIndex / esDelete, the dead-letter drainer dlq and   *)
(* the checkpointed reindexLibrary orchestrator.                           *)
(*                                                                         *)
(* Object keys under the single library prefix are the integers 1..MaxKey, *)
(* ordered as S3 orders keys; StatusKey is the position of the reserved    *)
(* key "<libraryID>/_reindex_status" in that order.  Time is counted in    *)
(* seconds (the code's 6000 ms margin is 6).                               *)
(***************************************************************************)
EXTENDS Integers, Sequences, FiniteSets, Bags, TLC

\* ---------------------------------------------------------------- bounds
MaxVersion == 2        \* payload versions 1..MaxVersion
MaxOps == 2            \* store mutations / foreign notifications per behaviour
DlqStartTime == 9      \* remaining seconds when a drain invocation is observed
MaxDt == 2             \* longest duration of one awaited call, in seconds
PageSize == 11         \* config s3BatchSize: keys per listing page
MaxRuns == 2           \* deliveries of the reindex request per behaviour
ReindexStartTime == 11 \* remaining seconds when a reindex invocation starts

MaxKey == 13           \* keys 1..MaxKey sort under the library prefix

\* ------------------------------------------------------ program constants
StatusKey == 12         \* where "_reindex_status" sorts among the keys
SqsBatchSize == 10
DlqMargin == 6
ReindexMargin == 6
VisibilityTimeout == 10   \* seconds a received message stays invisible
FunctionTimeout == 10     \* Timeout of the s3 function, in seconds
DlqFunctionTimeout == 60  \* Timeout of the dlq function, in seconds

NoKey == 0
Absent == [version |-> 0, decodable |-> FALSE]
NoCkpt == [exists |-> FALSE, lastKey |-> NoKey]

AllKeys == 1..MaxKey
ItemKeys == AllKeys \ {StatusKey}
\* the item key the store's clients write and delete
SyncKeys == {1}
Versions == 1..MaxVersion
\* two executions of the s3 function can be in progress at a time
Procs == {1, 2}
\* what a client can store under an item key: a payload with a version, or
\* bytes that do not decode
Contents == [version : Versions, decodable : {TRUE}] \cup {[version |-> 1, decodable |-> FALSE]}

\* ------------------------------------------------------------ entity tags
\* The store reports an entity tag wrapped in quotes (0 stands for the quote
\* character); notifications carry it without the quotes.
QuoteChar == 0
ETagChars(c) == <<c.version, IF c.decodable THEN 1 ELSE 2>>
StoreETag(c) == <<QuoteChar>> \o ETagChars(c) \o <<QuoteChar>>
\* String.prototype.slice(1, -1)
Slice1(s) == SubSeq(s, 2, Len(s) - 1)
StatusETag == <<9, 9>>

\* ---------------------------------------------------------- notifications
CreatedEvent(name, k, e) == [eventName |-> name, key |-> k, eTag |-> e]
RemovedEvent(k) == [eventName |-> "ObjectRemoved:Delete", key |-> k, eTag |-> <<>>]
\* a notification without an object key
MalformedEvent == [eventName |-> "ObjectCreated:Put", key |-> NoKey, eTag |-> <<>>]
\* /^ObjectCreated/.test(eventName)
IsCreated(name) == name \in {"ObjectCreated:Put", "ObjectCreated"}
\* /^ObjectRemoved/.test(eventName)
IsRemoved(name) == name \in {"ObjectRemoved:Delete"}
\* key.includes("_reindex_status")
IsReservedKey(k) == k = StatusKey

\* the fake event reindexLibrary builds for a listed entry
SyntheticEvent(k, quotedETag) == CreatedEvent("ObjectCreated", k, Slice1(quotedETag))

VARIABLES
    store,        \* item key -> content of the object, or Absent
    ckpt,         \* the record under the reserved key; lastKey = NoKey when the record is {}
    index,        \* document id (item key) -> stored version, 0 when no document
    notifs,       \* notifications the store has emitted and the dispatcher has not delivered
    qVisible,     \* retry queue: bag of message bodies that can be received
    qInflight,    \* retry queue: bag of message bodies under a visibility lease
    proc,         \* executions of the s3 function
    ops,          \* number of store mutations so far
    dpc, dRemaining, dMsg, dResult, numProcessed, dOutcome,   \* the dlq invocation
    applied,      \* history: versions esIndex returned normally for, since the id was last deleted
    reqPending,   \* the reindex request is in its queue (it is redelivered until a run succeeds)
    runs,         \* deliveries of the reindex request so far
    rpc,          \* position of the reindexLibrary invocation
    rStatus,      \* reindexStatus.lastKey, NoKey when absent
    rAfter,       \* StartAfter / ContinuationToken of listObjectsCommand: the key listed last
    rPage,        \* Contents of the page being processed (keys, in order)
    rTruncated,   \* IsTruncated of that page
    rForceStop,   \* forceStop
    rRemaining,   \* context.getRemainingTimeInMillis(), in seconds
    rOutcome,     \* how the last invocation ended
    rListing,     \* history: what the last listing of the invocation returned
    rSent,        \* history: keys of rPage whose entry was enqueued by this page's sends
    stops,        \* history: lastKey of the persisted checkpoint at every forced stop or crash
    aEvent,       \* document addressing: the notification and the payload stored under its key
    aId           \* document addressing: the id given to the engine call, NoId before the call

vars == <<store, ckpt, index, notifs, qVisible, qInflight, proc, ops,
          dpc, dRemaining, dMsg, dResult, numProcessed, dOutcome,
          applied, reqPending, runs, rpc, rStatus, rAfter, rPage, rTruncated,
          rForceStop, rRemaining, rOutcome, rListing, rSent, stops, aEvent, aId>>

addrVars == <<aEvent, aId>>

storeVars == <<store, ckpt, ops>>
queueVars == <<qVisible, qInflight>>
dlqVars == <<dpc, dRemaining, dMsg, dResult, numProcessed, dOutcome>>
histVars == <<applied>>
reindexVars == <<reqPending, runs, rpc, rStatus, rAfter, rPage, rTruncated,
                 rForceStop, rRemaining, rOutcome, rListing, rSent, stops>>
runVars == <<rStatus, rAfter, rPage, rTruncated, rForceStop, rListing, rSent>>

IdleProc == [pc |-> "idle", ev |-> MalformedEvent, fetched |-> Absent, json |-> Absent,
             key |-> NoKey, caller |-> "none", err |-> "", effect |-> ""]
NoResult == [ev |-> MalformedEvent, err |-> "", effect |-> ""]

Max2(a, b) == IF a >= b THEN a ELSE b
SetMax(S) == CHOOSE x \in S : \A y \in S : y <= x
Elapse(t, dt) == Max2(0, t - dt)

\* ------------------------------------------------------------ search engine
\* es.index with version_type 'external_gt': the write is applied when no
\* document exists or the given version is greater than the stored one,
\* otherwise the engine answers 409.
EsGateAccepts_Internal(stored, v) == TRUE
EsGateAccepts(stored, v) == stored = 0 \/ v > stored

\* esIndex without the catch for 409
EsIndexResult_NoCatch(idx, id, v, engineUp) ==
    IF ~engineUp THEN [index |-> idx, err |-> "ESError", effect |-> "none"]
    ELSE IF EsGateAccepts(idx[id], v)
         THEN [index |-> [idx EXCEPT ![id] = v], err |-> "", effect |-> "indexed"]
         ELSE [index |-> idx, err |-> "ESError", effect |-> "none"]
\* esIndex with a catch that ignores every error
EsIndexResult_Swallow(idx, id, v, engineUp) ==
    IF ~engineUp THEN [index |-> idx, err |-> "", effect |-> "conflict"]
    ELSE IF EsGateAccepts(idx[id], v)
         THEN [index |-> [idx EXCEPT ![id] = v], err |-> "", effect |-> "indexed"]
         ELSE [index |-> idx, err |-> "", effect |-> "conflict"]
\* esIndex(data): outcome of the awaited es.index call and of the catch.
\* engineUp = FALSE stands for any response other than success or 409.
EsIndexResult(idx, id, v, engineUp) ==
    IF ~engineUp THEN [index |-> idx, err |-> "ESError", effect |-> "none"]
    ELSE IF EsGateAccepts(idx[id], v)
         THEN [index |-> [idx EXCEPT ![id] = v], err |-> "", effect |-> "indexed"]
         ELSE [index |-> idx, err |-> "", effect |-> "conflict"]

\* esDelete without the catch for 404
EsDeleteResult_Throw404(idx, id, engineUp) ==
    IF ~engineUp THEN [index |-> idx, err |-> "ESError", effect |-> "none"]
    ELSE IF idx[id] # 0
         THEN [index |-> [idx EXCEPT ![id] = 0], err |-> "", effect |-> "deleted"]
         ELSE [index |-> idx, err |-> "ESError", effect |-> "none"]
\* esDelete(libraryID, key): 404 is ignored, anything else is thrown.
EsDeleteResult(idx, id, engineUp) ==
    IF ~engineUp THEN [index |-> idx, err |-> "ESError", effect |-> "none"]
    ELSE IF idx[id] # 0
         THEN [index |-> [idx EXCEPT ![id] = 0], err |-> "", effect |-> "deleted"]
         ELSE [index |-> idx, err |-> "", effect |-> "notFound"]

\* ------------------------------------------------------------- processEvent
\* processEvent without the eTag comparison
FetchResult_NoGuard(ev, st, storeUp) ==
    IF ev.key = NoKey
    THEN [next |-> "done", err |-> "TypeError", effect |-> "none", fetched |-> Absent, json |-> Absent]
    ELSE IF IsReservedKey(ev.key)
    THEN [next |-> "done", err |-> "", effect |-> "filtered", fetched |-> Absent, json |-> Absent]
    ELSE IF IsCreated(ev.eventName)
    THEN IF ~storeUp
         THEN [next |-> "done", err |-> "S3Error", effect |-> "none", fetched |-> Absent, json |-> Absent]
         ELSE IF st[ev.key] = Absent
         THEN [next |-> "done", err |-> "", effect |-> "gone", fetched |-> Absent, json |-> Absent]
         ELSE IF ~st[ev.key].decodable
         THEN [next |-> "done", err |-> "SyntaxError", effect |-> "none",
               fetched |-> st[ev.key], json |-> Absent]
         ELSE [next |-> "esIndex", err |-> "", effect |-> "",
               fetched |-> st[ev.key], json |-> st[ev.key]]
    ELSE IF IsRemoved(ev.eventName)
    THEN [next |-> "esDelete", err |-> "", effect |-> "", fetched |-> Absent, json |-> Absent]
    ELSE [next |-> "done", err |-> "", effect |-> "ignored", fetched |-> Absent, json |-> Absent]

\* processEvent without the test for the reserved key on Created notifications:
\* the status file is fetched like an item (and is found deleted)
FetchResult_NoFilter(ev, st, storeUp) ==
    IF ev.key = NoKey
    THEN [next |-> "done", err |-> "TypeError", effect |-> "none", fetched |-> Absent, json |-> Absent]
    ELSE IF IsReservedKey(ev.key) /\ ~IsCreated(ev.eventName)
    THEN [next |-> "done", err |-> "", effect |-> "filtered", fetched |-> Absent, json |-> Absent]
    ELSE IF IsCreated(ev.eventName)
    THEN IF ~storeUp
         THEN [next |-> "done", err |-> "S3Error", effect |-> "none", fetched |-> Absent, json |-> Absent]
         ELSE IF IsReservedKey(ev.key) \/ st[ev.key] = Absent
         THEN [next |-> "done", err |-> "", effect |-> "gone", fetched |-> Absent, json |-> Absent]
         ELSE IF ev.eTag # Slice1(StoreETag(st[ev.key]))
         THEN [next |-> "done", err |-> "eTagDiffers", effect |-> "none",
               fetched |-> st[ev.key], json |-> Absent]
         ELSE IF ~st[ev.key].decodable
         THEN [next |-> "done", err |-> "SyntaxError", effect |-> "none",
               fetched |-> st[ev.key], json |-> Absent]
         ELSE [next |-> "esIndex", err |-> "", effect |-> "",
               fetched |-> st[ev.key], json |-> st[ev.key]]
    ELSE IF IsRemoved(ev.eventName)
    THEN [next |-> "esDelete", err |-> "", effect |-> "", fetched |-> Absent, json |-> Absent]
    ELSE [next |-> "done", err |-> "", effect |-> "ignored", fetched |-> Absent, json |-> Absent]

\* processEvent rethrowing NoSuchKey like every other fetch error
FetchResult_GoneThrows(ev, st, storeUp) ==
    IF ev.key = NoKey
    THEN [next |-> "done", err |-> "TypeError", effect |-> "none", fetched |-> Absent, json |-> Absent]
    ELSE IF IsReservedKey(ev.key)
    THEN [next |-> "done", err |-> "", effect |-> "filtered", fetched |-> Absent, json |-> Absent]
    ELSE IF IsCreated(ev.eventName)
    THEN IF ~storeUp \/ st[ev.key] = Absent
         THEN [next |-> "done", err |-> "S3Error", effect |-> "none", fetched |-> Absent, json |-> Absent]
         ELSE IF ev.eTag # Slice1(StoreETag(st[ev.key]))
         THEN [next |-> "done", err |-> "eTagDiffers", effect |-> "none",
               fetched |-> st[ev.key], json |-> Absent]
         ELSE IF ~st[ev.key].decodable
         THEN [next |-> "done", err |-> "SyntaxError", effect |-> "none",
               fetched |-> st[ev.key], json |-> Absent]
         ELSE [next |-> "esIndex", err |-> "", effect |-> "",
               fetched |-> st[ev.key], json |-> st[ev.key]]
    ELSE IF IsRemoved(ev.eventName)
    THEN [next |-> "esDelete", err |-> "", effect |-> "", fetched |-> Absent, json |-> Absent]
    ELSE [next |-> "done", err |-> "", effect |-> "ignored", fetched |-> Absent, json |-> Absent]

\* The part of processEvent up to and including the store fetch, the eTag
\* comparison and the decoding.  storeUp = FALSE stands for a fetch error other
\* than NoSuchKey.  next = "esIndex" means the handler is about to await esIndex,
\* next = "esDelete" that it is about to await esDelete.  fetched is the object
\* the store returned (history), json the decoded payload.
FetchResult(ev, st, storeUp) ==
    IF ev.key = NoKey
    THEN [next |-> "done", err |-> "TypeError", effect |-> "none", fetched |-> Absent, json |-> Absent]
    ELSE IF IsReservedKey(ev.key)
    THEN [next |-> "done", err |-> "", effect |-> "filtered", fetched |-> Absent, json |-> Absent]
    ELSE IF IsCreated(ev.eventName)
    THEN IF ~storeUp
         THEN [next |-> "done", err |-> "S3Error", effect |-> "none", fetched |-> Absent, json |-> Absent]
         ELSE IF st[ev.key] = Absent
         THEN [next |-> "done", err |-> "", effect |-> "gone", fetched |-> Absent, json |-> Absent]
         ELSE IF ev.eTag # Slice1(StoreETag(st[ev.key]))
         THEN [next |-> "done", err |-> "eTagDiffers", effect |-> "none",
               fetched |-> st[ev.key], json |-> Absent]
         ELSE IF ~st[ev.key].decodable
         THEN [next |-> "done", err |-> "SyntaxError", effect |-> "none",
               fetched |-> st[ev.key], json |-> Absent]
         ELSE [next |-> "esIndex", err |-> "", effect |-> "",
               fetched |-> st[ev.key], json |-> st[ev.key]]
    ELSE IF IsRemoved(ev.eventName)
    THEN [next |-> "esDelete", err |-> "", effect |-> "", fetched |-> Absent, json |-> Absent]
    ELSE [next |-> "done", err |-> "", effect |-> "ignored", fetched |-> Absent, json |-> Absent]

\* an execution of the s3 function starts on event ev for the given caller
BeginProcess(p, ev, caller) ==
    /\ proc[p].pc = "idle"
    /\ \A q \in Procs : q < p => proc[q].pc # "idle"
    /\ \E storeUp \in BOOLEAN :
         LET r == FetchResult(ev, store, storeUp) IN
         proc' = [proc EXCEPT ![p] = [pc |-> r.next, ev |-> ev, fetched |-> r.fetched,
                                      json |-> r.json, key |-> ev.key, caller |-> caller,
                                      err |-> r.err, effect |-> r.effect]]

\* the awaited esIndex(json) of an execution; the payloads stored here declare
\* the library and key they are stored under, so the id esIndex derives is the
\* object key (payloads that declare another id: see document addressing)
EsIndexStep(p) ==
    /\ proc[p].pc = "esIndex"
    /\ \E engineUp \in BOOLEAN :
         LET r == EsIndexResult(index, proc[p].key, proc[p].json.version, engineUp) IN
         /\ index' = r.index
         /\ proc' = [proc EXCEPT ![p].pc = "done", ![p].err = r.err, ![p].effect = r.effect]
         /\ applied' = IF r.err = ""
                       THEN [applied EXCEPT ![proc[p].key] = @ \cup {proc[p].json.version}]
                       ELSE applied
    /\ UNCHANGED <<storeVars, notifs, queueVars, dlqVars>>
    /\ UNCHANGED <<reindexVars, addrVars>>

\* the awaited esDelete(parts[0], parts[1]) of an execution
EsDeleteStep(p) ==
    /\ proc[p].pc = "esDelete"
    /\ \E engineUp \in BOOLEAN :
         LET r == EsDeleteResult(index, proc[p].key, engineUp) IN
         /\ index' = r.index
         /\ proc' = [proc EXCEPT ![p].pc = "done", ![p].err = r.err, ![p].effect = r.effect]
         /\ applied' = IF r.effect = "deleted"
                       THEN [applied EXCEPT ![proc[p].key] = {}]
                       ELSE applied
    /\ UNCHANGED <<storeVars, notifs, queueVars, dlqVars>>
    /\ UNCHANGED <<reindexVars, addrVars>>

\* ------------------------------------------------------------ primary path
\* a client writes an object; the bucket emits s3:ObjectCreated
PutObject(k, c) ==
    /\ ops < MaxOps
    /\ store' = [store EXCEPT ![k] = c]
    /\ notifs' = notifs \cup {CreatedEvent("ObjectCreated:Put", k, Slice1(StoreETag(c)))}
    /\ ops' = ops + 1
    /\ UNCHANGED <<ckpt, index, queueVars, proc, dlqVars, histVars>>
    /\ UNCHANGED <<reindexVars, addrVars>>

\* a client deletes an object; the bucket emits s3:ObjectRemoved
RemoveObject(k) ==
    /\ ops < MaxOps
    /\ store[k] # Absent
    /\ store' = [store EXCEPT ![k] = Absent]
    /\ notifs' = notifs \cup {RemovedEvent(k)}
    /\ ops' = ops + 1
    /\ UNCHANGED <<ckpt, index, queueVars, proc, dlqVars, histVars>>
    /\ UNCHANGED <<reindexVars, addrVars>>

\* the function is invoked with a notification that has no object key
MalformedArrives ==
    /\ ops < MaxOps
    /\ MalformedEvent \notin notifs
    /\ notifs' = notifs \cup {MalformedEvent}
    /\ ops' = ops + 1
    /\ UNCHANGED <<store, ckpt, index, queueVars, proc, dlqVars, histVars>>
    /\ UNCHANGED <<reindexVars, addrVars>>

\* export const s3: the dispatcher delivers a notification
S3Invoke(p) ==
    /\ \E ev \in notifs :
         /\ notifs' = notifs \ {ev}
         /\ BeginProcess(p, ev, "s3")
    /\ UNCHANGED <<storeVars, index, queueVars, dlqVars, histVars>>
    /\ UNCHANGED <<reindexVars, addrVars>>

\* the execution ends; a failed asynchronous invocation goes to the
\* function's DeadLetterQueue
S3Complete(p) ==
    /\ proc[p].pc = "done"
    /\ proc[p].caller = "s3"
    /\ qVisible' = IF proc[p].err # "" THEN qVisible (+) SetToBag({proc[p].ev}) ELSE qVisible
    /\ proc' = [proc EXCEPT ![p] = IdleProc]
    /\ UNCHANGED <<storeVars, index, notifs, qInflight, dlqVars, histVars>>
    /\ UNCHANGED <<reindexVars, addrVars>>

\* --------------------------------------------------------------- retry queue
\* ReceiveMessage with VisibilityTimeout: the message becomes invisible
Lease(m) ==
    /\ qVisible' = qVisible (-) SetToBag({m})
    /\ qInflight' = qInflight (+) SetToBag({m})

\* DeleteMessage by receipt handle; a handle whose lease has expired still
\* names the message
RemoveMessage(m) ==
    IF BagIn(m, qInflight)
    THEN /\ qInflight' = qInflight (-) SetToBag({m})
         /\ qVisible' = qVisible
    ELSE /\ qVisible' = qVisible (-) SetToBag({m})
         /\ qInflight' = qInflight

\* the visibility lease of an unacknowledged message runs out
LeaseExpire ==
    /\ \E m \in BagToSet(qInflight) :
         /\ qInflight' = qInflight (-) SetToBag({m})
         /\ qVisible' = qVisible (+) SetToBag({m})
    /\ UNCHANGED <<storeVars, index, notifs, proc, dlqVars, histVars>>
    /\ UNCHANGED <<reindexVars, addrVars>>

\* ------------------------------------------------------------------ drainer
\* errorMessage.includes('Event eTag differs from S3 object eTag')
IsETagMismatch(err) == err = "eTagDiffers"

\* the loop body with every FunctionError acknowledged like a success
AfterReplay_AckAll(err) == "delete"
\* the loop body continuing after every FunctionError
AfterReplay_ContinueAll(err) == IF err # "" THEN "loop" ELSE "delete"
\* the loop body acknowledging a message whose replay failed to parse
AfterReplay_DropMalformed(err) ==
    IF err # ""
    THEN IF IsETagMismatch(err) THEN "loop"
         ELSE IF err \in {"TypeError", "SyntaxError"} THEN "delete" ELSE "return"
    ELSE "delete"
\* What the loop body does once the synchronous invocation has returned:
\* without FunctionError it goes on to DeleteMessage; with the eTag phrase in
\* errorMessage it continues with the next iteration; otherwise it returns.
AfterReplay(err) ==
    IF err # ""
    THEN IF IsETagMismatch(err) THEN "loop" ELSE "return"
    ELSE "delete"

\* catch (err) { console.error(err); }: the invocation still returns normally
OnException == "StoppedOnError"

\* the invocation returns; its clock is no longer observed
DlqStop(outcome) ==
    /\ dpc' = "idle"
    /\ dOutcome' = outcome
    /\ dRemaining' = 0

\* an awaited call of the loop throws err
DlqCatch(err) ==
    /\ DlqStop(OnException)
    /\ dResult' = [ev |-> dMsg, err |-> err, effect |-> "none"]

\* export const dlq: the scheduler starts a drain invocation
DlqStart ==
    /\ dpc = "idle"
    /\ dpc' = "loop"
    /\ dRemaining' = DlqStartTime
    /\ numProcessed' = 0
    /\ dOutcome' = "Draining"
    /\ dResult' = NoResult
    /\ UNCHANGED <<storeVars, index, notifs, queueVars, proc, dMsg, histVars>>
    /\ UNCHANGED <<reindexVars, addrVars>>

\* the loop condition with >= in place of >
MayReceive_AtMargin(remaining) == remaining >= DlqMargin
\* while (context.getRemainingTimeInMillis() > 6000)
MayReceive(remaining) == remaining > DlqMargin

\* the loop condition fails: the loop ends
DlqTimeout ==
    /\ dpc = "loop"
    /\ ~MayReceive(dRemaining)
    /\ DlqStop("StoppedOnTimeout")
    /\ UNCHANGED <<storeVars, index, notifs, queueVars, proc, dMsg, dResult,
                   numProcessed, histVars>>
    /\ UNCHANGED <<reindexVars, addrVars>>

\* the loop condition holds and ReceiveMessage is awaited
DlqReceive ==
    /\ dpc = "loop"
    /\ MayReceive(dRemaining)
    /\ \/ \* the queue call throws: catch (err)
          /\ DlqCatch("QueueError")
          /\ UNCHANGED <<queueVars, dMsg>>
       \/ \* no message
          /\ qVisible = EmptyBag
          /\ DlqStop("StoppedOnEmpty")
          /\ UNCHANGED <<queueVars, dMsg, dResult>>
       \/ \E m \in BagToSet(qVisible), dt \in 1..MaxDt :
            /\ Lease(m)
            /\ dMsg' = m
            /\ dpc' = "invoke"
            /\ dRemaining' = Elapse(dRemaining, dt)
            /\ UNCHANGED <<dOutcome, dResult>>
    /\ UNCHANGED <<storeVars, index, notifs, proc, numProcessed, histVars>>
    /\ UNCHANGED <<reindexVars, addrVars>>

\* lambda.send(new InvokeCommand(...)) with the message body as payload
DlqInvoke ==
    /\ dpc = "invoke"
    /\ \/ \* the invoker throws: catch (err)
          /\ DlqCatch("InvokeError")
          /\ UNCHANGED proc
       \/ /\ \E p \in Procs : BeginProcess(p, dMsg, "dlq")
          /\ dpc' = "wait"
          /\ UNCHANGED <<dOutcome, dResult, dRemaining>>
    /\ UNCHANGED <<storeVars, index, notifs, queueVars, dMsg, numProcessed, histVars>>
    /\ UNCHANGED <<reindexVars, addrVars>>

\* the synchronous invocation returns; result.FunctionError is inspected
DlqResult(p) ==
    /\ dpc = "wait"
    /\ proc[p].pc = "done"
    /\ proc[p].caller = "dlq"
    /\ proc' = [proc EXCEPT ![p] = IdleProc]
    /\ dResult' = [ev |-> proc[p].ev, err |-> proc[p].err, effect |-> proc[p].effect]
    /\ IF AfterReplay(proc[p].err) = "return"
       THEN DlqStop("StoppedOnError")
       ELSE /\ dpc' = AfterReplay(proc[p].err)
            /\ \E dt \in 1..MaxDt : dRemaining' = Elapse(dRemaining, dt)
            /\ UNCHANGED dOutcome
    /\ UNCHANGED <<storeVars, index, notifs, queueVars, dMsg, numProcessed, applied>>
    /\ UNCHANGED <<reindexVars, addrVars>>

\* sqs.send(new DeleteMessageCommand(...)); numProcessed++
DlqDelete ==
    /\ dpc = "delete"
    /\ \/ \* the queue call throws: catch (err)
          /\ DlqCatch("QueueError")
          /\ UNCHANGED <<queueVars, numProcessed>>
       \/ /\ RemoveMessage(dMsg)
          /\ numProcessed' = numProcessed + 1
          /\ dpc' = "loop"
          /\ \E dt \in 1..MaxDt : dRemaining' = Elapse(dRemaining, dt)
          /\ UNCHANGED <<dOutcome, dResult>>
    /\ UNCHANGED <<storeVars, index, notifs, proc, dMsg, applied>>
    /\ UNCHANGED <<reindexVars, addrVars>>

\* A second invocation of dlq running while the first one does (the schedule
\* starts an invocation every minute and one may run for 60 s); one pass of
\* its loop is followed: ReceiveMessage and the synchronous invocation of the
\* s3 function with the message body.
Dlq2Replay(p) ==
    /\ \A q \in Procs : proc[q].caller # "dlq2"
    /\ \E m \in BagToSet(qVisible) :
         /\ Lease(m)
         /\ BeginProcess(p, m, "dlq2")
    /\ UNCHANGED <<storeVars, index, notifs, dlqVars, histVars>>
    /\ UNCHANGED <<reindexVars, addrVars>>

\* the invocation has returned to the second drainer: DeleteMessage unless
\* FunctionError is set; the DeleteMessage may throw
Dlq2Result(p) ==
    /\ proc[p].pc = "done"
    /\ proc[p].caller = "dlq2"
    /\ proc' = [proc EXCEPT ![p] = IdleProc]
    /\ IF AfterReplay(proc[p].err) = "delete"
       THEN \/ RemoveMessage(proc[p].ev)
            \/ UNCHANGED queueVars
       ELSE UNCHANGED queueVars
    /\ UNCHANGED <<storeVars, index, notifs, dlqVars, histVars>>
    /\ UNCHANGED <<reindexVars, addrVars>>

\* ------------------------------------------------------------------ reindex
syncVars == <<store, ops, index, qInflight, proc, dlqVars, histVars>>

\* objects under the prefix `${libraryID}/`: the items and, while it exists,
\* the record under the reserved key
Present(k) == IF k = StatusKey THEN ckpt.exists ELSE store[k] # Absent
KeysAfter(a) == {k \in AllKeys : k > a /\ Present(k)}
Min2(a, b) == IF a <= b THEN a ELSE b
NthKey(S, i) == CHOOSE k \in S : Cardinality({j \in S : j < k}) = i - 1

\* ListObjectsV2 with MaxKeys and StartAfter / ContinuationToken
ListContents(a) == [i \in 1..Min2(PageSize, Cardinality(KeysAfter(a))) |-> NthKey(KeysAfter(a), i)]
ListIsTruncated(a) == Cardinality(KeysAfter(a)) > PageSize

EntryETag(k) == IF k = StatusKey THEN <<QuoteChar>> \o StatusETag \o <<QuoteChar>>
                ELSE StoreETag(store[k])

\* batches cut one entry too long
Batch_OneMore(page, b) ==
    SubSeq(page, SqsBatchSize * (b - 1) + 1, Min2(SqsBatchSize * b + 1, Len(page)))
\* sqsEvents.splice(0, 10), repeated: the b-th batch of a page
NumBatches(page) == (Len(page) + SqsBatchSize - 1) \div SqsBatchSize
Batch(page, b) == SubSeq(page, SqsBatchSize * (b - 1) + 1, Min2(SqsBatchSize * b, Len(page)))

\* What SendMessageBatch can answer for a batch: the call is rejected (-1),
\* every entry is enqueued (0), or the call succeeds and reports entry i in
\* Failed (i = 1 or the last entry of the batch).
SendAnswers(batch) == {-1, 0, 1, Len(batch)}
BatchSent(batch, answer) ==
    IF answer = -1 THEN {}
    ELSE {batch[i] : i \in {j \in 1..Len(batch) : j # answer}}

RangeOf(seq) == {seq[i] : i \in 1..Len(seq)}

\* the invocation ends with an exception: the request stays in its queue
RThrow(outcome) ==
    /\ rpc' = "idle"
    /\ rOutcome' = outcome

\* export const reindexLibrary: the reindex request is delivered.  The status
\* file is fetched; ANY exception of the try block falls into the catch, which
\* writes a fresh {} record.
RStart ==
    /\ rpc = "idle"
    /\ reqPending
    /\ runs < MaxRuns
    /\ runs' = runs + 1
    /\ rForceStop' = FALSE
    /\ rPage' = <<>>
    /\ rTruncated' = FALSE
    /\ rListing' = "none"
    /\ rSent' = {}
    /\ \E dt \in 1..MaxDt : rRemaining' = Elapse(ReindexStartTime, dt)
    /\ \/ \* the record is read and parsed
          /\ ckpt.exists
          /\ rStatus' = ckpt.lastKey
          /\ rAfter' = ckpt.lastKey
          /\ rpc' = "loop"
          /\ UNCHANGED <<ckpt, notifs, rOutcome>>
       \/ \* GetObject throws (NoSuchKey or any other error): PutObject of {}
          /\ rStatus' = NoKey
          /\ rAfter' = NoKey
          /\ \/ /\ ckpt' = [exists |-> TRUE, lastKey |-> NoKey]
                /\ notifs' = notifs \cup {CreatedEvent("ObjectCreated:Put", StatusKey, StatusETag)}
                /\ rpc' = "loop"
                /\ UNCHANGED rOutcome
             \/ \* the PutObject throws as well
                /\ RThrow("StoreError")
                /\ UNCHANGED <<ckpt, notifs>>
    /\ UNCHANGED <<qVisible, reqPending, stops, syncVars, addrVars>>

\* if (context.getRemainingTimeInMillis() < 6000) { forceStop = true; break; }
RForceStop ==
    /\ rpc = "loop"
    /\ rRemaining < ReindexMargin
    /\ rForceStop' = TRUE
    /\ rpc' = "end"
    /\ UNCHANGED <<ckpt, notifs, qVisible, reqPending, runs, rStatus, rAfter, rPage, rTruncated,
                   rRemaining, rOutcome, rListing, rSent, stops, syncVars, addrVars>>

\* s3Client.send(listObjectsCommand) and the construction of sqsEvents;
\* Contents is missing when nothing is listed and Contents.map throws
RList ==
    /\ rpc = "loop"
    /\ ~(rRemaining < ReindexMargin)
    /\ \E dt \in 1..MaxDt : rRemaining' = Elapse(rRemaining, dt)
    /\ \/ \* the listing throws
          /\ RThrow("StoreError")
          /\ UNCHANGED <<rPage, rTruncated, rAfter, rListing, rSent>>
       \/ /\ ListContents(rAfter) = <<>>
          /\ rListing' = "empty"
          /\ RThrow("TypeError")
          /\ UNCHANGED <<rPage, rTruncated, rAfter, rSent>>
       \/ /\ ListContents(rAfter) # <<>>
          /\ rListing' = "page"
          /\ rSent' = {}
          /\ rPage' = ListContents(rAfter)
          /\ rTruncated' = ListIsTruncated(rAfter)
          /\ rAfter' = IF ListIsTruncated(rAfter)
                       THEN ListContents(rAfter)[Len(ListContents(rAfter))]
                       ELSE rAfter
          /\ rpc' = "send"
          /\ UNCHANGED rOutcome
    /\ UNCHANGED <<ckpt, notifs, qVisible, reqPending, runs, rStatus, rForceStop, stops, syncVars, addrVars>>

\* every batch of the page is sent; await Promise.all(sqsSendEventPromises)
\* rejects when a send is rejected and otherwise resolves, whatever the
\* answers list under Failed
RSend ==
    /\ rpc = "send"
    /\ \E dt \in 1..MaxDt : rRemaining' = Elapse(rRemaining, dt)
    /\ \E answer \in [1..NumBatches(rPage) -> -1..SqsBatchSize] :
         /\ \A b \in 1..NumBatches(rPage) : answer[b] \in SendAnswers(Batch(rPage, b))
         /\ LET sent == UNION {BatchSent(Batch(rPage, b), answer[b]) : b \in 1..NumBatches(rPage)} IN
            /\ qVisible' = qVisible (+) SetToBag({SyntheticEvent(k, EntryETag(k)) : k \in sent})
            /\ rSent' = sent
         /\ IF \E b \in 1..NumBatches(rPage) : answer[b] = -1
            THEN RThrow("QueueError")
            ELSE /\ rpc' = "put"
                 /\ UNCHANGED rOutcome
    /\ UNCHANGED <<ckpt, notifs, reqPending, runs, rStatus, rAfter, rPage, rTruncated,
                   rForceStop, rListing, stops, syncVars, addrVars>>

\* reindexStatus.lastKey = lastKey; PutObject of the status file; while (IsTruncated)
RPut ==
    /\ rpc = "put"
    /\ \E dt \in 1..MaxDt : rRemaining' = Elapse(rRemaining, dt)
    /\ rStatus' = rPage[Len(rPage)]
    /\ \/ /\ ckpt' = [exists |-> TRUE, lastKey |-> rPage[Len(rPage)]]
          /\ notifs' = notifs \cup {CreatedEvent("ObjectCreated:Put", StatusKey, StatusETag)}
          /\ rpc' = IF rTruncated THEN "loop" ELSE "end"
          /\ UNCHANGED rOutcome
       \/ \* the PutObject throws
          /\ RThrow("StoreError")
          /\ UNCHANGED <<ckpt, notifs>>
    /\ UNCHANGED <<qVisible, reqPending, runs, rAfter, rPage, rTruncated, rForceStop,
                   rListing, rSent, stops, syncVars, addrVars>>

\* the code after the loop returning plain success whatever forceStop is
EndSignal_AlwaysSuccess(forceStop) == "Completed"
\* if (forceStop) return {batchItemFailures: [...]}; otherwise the function
\* goes on to DeleteObject and returns undefined
EndSignal(forceStop) == IF forceStop THEN "Redeliver" ELSE "Completed"

\* after the loop: the redelivery signal on forceStop, else DeleteObject of
\* the status file
REnd ==
    /\ rpc = "end"
    /\ IF EndSignal(rForceStop) = "Redeliver"
       THEN /\ rpc' = "idle"
            /\ rOutcome' = "Redeliver"
            /\ stops' = IF ckpt.exists /\ ckpt.lastKey # NoKey
                        THEN stops \cup {ckpt.lastKey} ELSE stops
            /\ UNCHANGED <<ckpt, notifs, reqPending>>
       ELSE \/ /\ ckpt' = NoCkpt
               /\ notifs' = IF ckpt.exists THEN notifs \cup {RemovedEvent(StatusKey)} ELSE notifs
               /\ rpc' = "idle"
               /\ rOutcome' = "Completed"
               /\ reqPending' = FALSE
               /\ UNCHANGED stops
            \/ \* the DeleteObject throws
               /\ RThrow("StoreError")
               /\ UNCHANGED <<ckpt, notifs, reqPending, stops>>
    /\ UNCHANGED <<qVisible, runs, runVars, rRemaining, syncVars, addrVars>>

\* the invocation is killed (hard timeout, crash of the execution environment)
RCrash ==
    /\ rpc # "idle"
    /\ rpc' = "idle"
    /\ rOutcome' = "Crashed"
    /\ stops' = IF ckpt.exists /\ ckpt.lastKey # NoKey
                THEN stops \cup {ckpt.lastKey} ELSE stops
    /\ UNCHANGED <<ckpt, notifs, qVisible, reqPending, runs, runVars, rRemaining, syncVars, addrVars>>

\* ------------------------------------------------- drain invocation, timed
\* The dlq invocation against its deployed clock: it starts with
\* DlqFunctionTimeout seconds, a queue call lasts up to MaxDt seconds and the
\* synchronous invocation of the s3 function up to FunctionTimeout seconds
\* (the s3 function is then stopped and the invocation returns a
\* FunctionError).  The platform stops the dlq invocation when its remaining
\* time reaches zero.  The queue is not followed: a receive answers with a
\* message or with none.

\* an awaited call of dt seconds: the invocation is killed during the call
\* when fewer than dt seconds remained
Killed(dt) == dt >= dRemaining
CycleKill ==
    /\ dpc' = "idle"
    /\ dOutcome' = "Killed"
    /\ dRemaining' = 0

CycleRest == <<storeVars, index, notifs, queueVars, proc, dMsg, histVars, reindexVars, addrVars>>

CycleStart ==
    /\ dpc = "idle"
    /\ dOutcome = "none"
    /\ dpc' = "loop"
    /\ dRemaining' = DlqFunctionTimeout
    /\ numProcessed' = 0
    /\ dOutcome' = "Draining"
    /\ dResult' = NoResult
    /\ UNCHANGED CycleRest

\* the loop condition fails
CycleTimeout ==
    /\ dpc = "loop"
    /\ ~MayReceive(dRemaining)
    /\ DlqStop("StoppedOnTimeout")
    /\ UNCHANGED <<dResult, numProcessed>>
    /\ UNCHANGED CycleRest

\* ReceiveMessage
CycleReceive ==
    /\ dpc = "loop"
    /\ MayReceive(dRemaining)
    /\ \E dt \in 1..MaxDt :
         IF Killed(dt) THEN CycleKill
         ELSE \/ DlqStop(OnException)
              \/ DlqStop("StoppedOnEmpty")
              \/ /\ dpc' = "invoke"
                 /\ dRemaining' = dRemaining - dt
                 /\ UNCHANGED dOutcome
    /\ UNCHANGED <<dResult, numProcessed>>
    /\ UNCHANGED CycleRest

\* lambda.send(new InvokeCommand(...)) and the inspection of the result
CycleReplay ==
    /\ dpc = "invoke"
    /\ \E dt \in 1..FunctionTimeout, err \in {"", "eTagDiffers", "ESError", "TimedOut"} :
         /\ (err = "TimedOut") <=> (dt = FunctionTimeout)
         /\ IF Killed(dt) THEN CycleKill /\ UNCHANGED dResult
            ELSE /\ dResult' = [ev |-> dMsg, err |-> err, effect |-> "none"]
                 /\ IF AfterReplay(err) = "return"
                    THEN DlqStop("StoppedOnError")
                    ELSE /\ dpc' = AfterReplay(err)
                         /\ dRemaining' = dRemaining - dt
                         /\ UNCHANGED dOutcome
    /\ UNCHANGED numProcessed
    /\ UNCHANGED CycleRest

\* DeleteMessage; numProcessed++
CycleDelete ==
    /\ dpc = "delete"
    /\ \E dt \in 1..MaxDt :
         IF Killed(dt) THEN CycleKill /\ UNCHANGED numProcessed
         ELSE \/ DlqStop(OnException) /\ UNCHANGED numProcessed
              \/ /\ numProcessed' = numProcessed + 1
                 /\ dpc' = "loop"
                 /\ dRemaining' = dRemaining - dt
                 /\ UNCHANGED dOutcome
    /\ UNCHANGED dResult
    /\ UNCHANGED CycleRest

NextCycle ==
    \/ CycleStart
    \/ CycleTimeout
    \/ CycleReceive
    \/ CycleReplay
    \/ CycleDelete

\* ------------------------------------------------------ document addressing
\* Object keys and payload fields as strings: sequences of characters.
Slash == "/"
Libs == {<<"1">>, <<"2">>, <<"1", "2">>}
Items == {<<"A">>, <<"B">>, <<"A", "B">>}
\* the key `${libraryID}/${itemKey}` an item's full text is stored under
ObjectKey(lib, item) == lib \o <<Slash>> \o item
AddrKeys == {ObjectKey(lib, item) : lib \in Libs, item \in Items}
\* the fields of a decoded payload that esIndex reads
AddrPayloads == [libraryID : Libs, key : Items]
NoPayload == [libraryID |-> <<>>, key |-> <<>>]
NoId == <<>>
\* parts[1] of a key without a slash
Undefined == <<"undefined">>

\* position of the first slash of s, 0 when there is none
FirstSlash(s) ==
    IF \E i \in 1..Len(s) : s[i] = Slash
    THEN CHOOSE i \in 1..Len(s) : s[i] = Slash /\ \A j \in 1..(i - 1) : s[j] # Slash
    ELSE 0

RECURSIVE Split(_)
\* key.split('/')
Split(s) ==
    IF FirstSlash(s) = 0 THEN <<s>>
    ELSE <<SubSeq(s, 1, FirstSlash(s) - 1)>> \o Split(SubSeq(s, FirstSlash(s) + 1, Len(s)))

Part(parts, n) == IF n <= Len(parts) THEN parts[n] ELSE Undefined

\* esIndex: let id = data.libraryID + '/' + data.key
EsIndexId(data) == data.libraryID \o <<Slash>> \o data.key
\* processEvent and esDelete: parts = key.split('/'); id = parts[0] + '/' + parts[1]
EsDeleteId(key) == Part(Split(key), 1) \o <<Slash>> \o Part(Split(key), 2)

\* Created notifications of an object whose eTag matched, with the payload
\* decoded from it, and Removed notifications
AddrEvents ==
    {[eventName |-> "ObjectCreated:Put", key |-> k, payload |-> d] : k \in AddrKeys, d \in AddrPayloads}
        \cup {[eventName |-> "ObjectRemoved:Delete", key |-> k, payload |-> NoPayload] : k \in AddrKeys}
NoAddrEvent == [eventName |-> "", key |-> <<>>, payload |-> NoPayload]

AddrIdle ==
    /\ aEvent = NoAddrEvent
    /\ aId = NoId

\* esIndex(json) issues es.index with the id it derives
AddrIndex ==
    /\ aId = NoId
    /\ IsCreated(aEvent.eventName)
    /\ aId' = EsIndexId(aEvent.payload)
    /\ UNCHANGED <<storeVars, index, notifs, queueVars, proc, dlqVars, histVars, reindexVars, aEvent>>

\* esDelete(parts[0], parts[1]) issues es.delete with the id it derives
AddrDelete ==
    /\ aId = NoId
    /\ IsRemoved(aEvent.eventName)
    /\ aId' = EsDeleteId(aEvent.key)
    /\ UNCHANGED <<storeVars, index, notifs, queueVars, proc, dlqVars, histVars, reindexVars, aEvent>>

\* ------------------------------------------------------------ specification
ReindexIdle ==
    /\ runs = 0
    /\ rpc = "idle"
    /\ rStatus = NoKey
    /\ rAfter = NoKey
    /\ rPage = <<>>
    /\ rTruncated = FALSE
    /\ rForceStop = FALSE
    /\ rRemaining = 0
    /\ rOutcome = "none"
    /\ rListing = "none"
    /\ rSent = {}
    /\ stops = {}

Init ==
    /\ store = [k \in ItemKeys |-> Absent]
    /\ ckpt = NoCkpt
    /\ index = [k \in ItemKeys |-> 0]
    /\ notifs = {}
    /\ qVisible = EmptyBag
    /\ qInflight = EmptyBag
    /\ proc = [p \in Procs |-> IdleProc]
    /\ ops = 0
    /\ dpc = "idle"
    /\ dRemaining = 0
    /\ dMsg = MalformedEvent
    /\ dResult = NoResult
    /\ numProcessed = 0
    /\ dOutcome = "none"
    /\ applied = [k \in ItemKeys |-> {}]
    /\ reqPending = FALSE
    /\ ReindexIdle
    /\ AddrIdle

Next ==
    \/ \E k \in SyncKeys, c \in Contents : PutObject(k, c)
    \/ \E k \in SyncKeys : RemoveObject(k)
    \/ MalformedArrives
    \/ \E p \in Procs : S3Invoke(p)
    \/ \E p \in Procs : EsIndexStep(p)
    \/ \E p \in Procs : EsDeleteStep(p)
    \/ \E p \in Procs : S3Complete(p)
    \/ LeaseExpire
    \/ DlqStart
    \/ DlqTimeout
    \/ DlqReceive
    \/ DlqInvoke
    \/ \E p \in Procs : DlqResult(p)
    \/ DlqDelete

Spec == Init /\ [][Next]_vars

\* A reindex request for a library whose items are all in the store
InitReindex ==
    /\ store = [k \in ItemKeys |-> [version |-> 1, decodable |-> TRUE]]
    /\ ckpt = NoCkpt
    /\ index = [k \in ItemKeys |-> 0]
    /\ notifs = {}
    /\ qVisible = EmptyBag
    /\ qInflight = EmptyBag
    /\ proc = [p \in Procs |-> IdleProc]
    /\ ops = 0
    /\ dpc = "idle"
    /\ dRemaining = 0
    /\ dMsg = MalformedEvent
    /\ dResult = NoResult
    /\ numProcessed = 0
    /\ dOutcome = "none"
    /\ applied = [k \in ItemKeys |-> {}]
    /\ reqPending = TRUE
    /\ ReindexIdle
    /\ AddrIdle

NextReindex ==
    \/ RStart
    \/ RForceStop
    \/ RList
    \/ RSend
    \/ RPut
    \/ REnd
    \/ RCrash

SpecReindex == InitReindex /\ [][NextReindex]_vars

\* The retry queue holds one message.  Either an outage left a notification
\* of item 1 there (Created with the eTag of some content, or Removed), or a
\* reindex of the library left the synthetic event it built for the status
\* file it listed, and then the notifications of the status file's own
\* PutObject and DeleteObject are still to be delivered.  The object and the
\* document of item 1 are in any state the outage can have left them in.
ReplayMessages ==
    {CreatedEvent("ObjectCreated:Put", k, Slice1(StoreETag(c))) : k \in SyncKeys, c \in Contents}
        \cup {RemovedEvent(k) : k \in SyncKeys}
StatusNotifications ==
    {CreatedEvent("ObjectCreated:Put", StatusKey, StatusETag), RemovedEvent(StatusKey)}

InitReplay ==
    /\ \E c \in Contents \cup {Absent} :
         store = [k \in ItemKeys |-> IF k \in SyncKeys THEN c ELSE Absent]
    /\ ckpt = NoCkpt
    /\ \E v \in 0..MaxVersion :
         /\ index = [k \in ItemKeys |-> IF k \in SyncKeys THEN v ELSE 0]
         /\ applied = [k \in ItemKeys |-> IF k \in SyncKeys /\ v # 0 THEN {v} ELSE {}]
    /\ \E m \in ReplayMessages \cup {SyntheticEvent(StatusKey, EntryETag(StatusKey))} :
         /\ qVisible = SetToBag({m})
         /\ notifs = IF IsReservedKey(m.key) THEN StatusNotifications ELSE {}
    /\ qInflight = EmptyBag
    /\ proc = [p \in Procs |-> IdleProc]
    /\ ops = 0
    /\ dpc = "idle"
    /\ dRemaining = 0
    /\ dMsg = MalformedEvent
    /\ dResult = NoResult
    /\ numProcessed = 0
    /\ dOutcome = "none"
    /\ reqPending = FALSE
    /\ ReindexIdle
    /\ AddrIdle

NextReplay ==
    \/ \E p \in Procs : S3Invoke(p)
    \/ \E p \in Procs : EsIndexStep(p)
    \/ \E p \in Procs : EsDeleteStep(p)
    \/ \E p \in Procs : S3Complete(p)
    \/ LeaseExpire
    \/ DlqStart
    \/ DlqTimeout
    \/ DlqReceive
    \/ DlqInvoke
    \/ \E p \in Procs : DlqResult(p)
    \/ DlqDelete
    \/ \E p \in Procs : Dlq2Replay(p)
    \/ \E p \in Procs : Dlq2Result(p)

SpecReplay == InitReplay /\ [][NextReplay]_vars

\* one notification is processed up to its engine call
InitAddress ==
    /\ store = [k \in ItemKeys |-> Absent]
    /\ ckpt = NoCkpt
    /\ index = [k \in ItemKeys |-> 0]
    /\ notifs = {}
    /\ qVisible = EmptyBag
    /\ qInflight = EmptyBag
    /\ proc = [p \in Procs |-> IdleProc]
    /\ ops = 0
    /\ dpc = "idle"
    /\ dRemaining = 0
    /\ dMsg = MalformedEvent
    /\ dResult = NoResult
    /\ numProcessed = 0
    /\ dOutcome = "none"
    /\ applied = [k \in ItemKeys |-> {}]
    /\ reqPending = FALSE
    /\ ReindexIdle
    /\ aEvent \in AddrEvents
    /\ aId = NoId

NextAddress ==
    \/ AddrIndex
    \/ AddrDelete

SpecAddress == InitAddress /\ [][NextAddress]_vars

SpecCycle == Init /\ [][NextCycle]_vars

\* The backlog of InitReplay with recurring drain invocations and nothing new
\* arriving: the schedule starts dlq every minute, every awaited call returns,
\* the s3 function's executions run to their end and a lease runs out after
\* its visibility timeout.
NextDrain ==
    \/ \E p \in Procs : S3Invoke(p)
    \/ \E p \in Procs : EsIndexStep(p)
    \/ \E p \in Procs : EsDeleteStep(p)
    \/ \E p \in Procs : S3Complete(p)
    \/ LeaseExpire
    \/ DlqStart
    \/ DlqTimeout
    \/ DlqReceive
    \/ DlqInvoke
    \/ \E p \in Procs : DlqResult(p)
    \/ DlqDelete

DrainFairness ==
    /\ WF_vars(\E p \in Procs : S3Invoke(p))
    /\ WF_vars(\E p \in Procs : EsIndexStep(p))
    /\ WF_vars(\E p \in Procs : EsDeleteStep(p))
    /\ WF_vars(\E p \in Procs : S3Complete(p))
    /\ WF_vars(LeaseExpire)
    /\ WF_vars(DlqStart)
    /\ WF_vars(DlqTimeout)
    /\ WF_vars(DlqReceive)
    /\ WF_vars(DlqInvoke)
    /\ WF_vars(\E p \in Procs : DlqResult(p))
    /\ WF_vars(DlqDelete)

SpecDrain == InitReplay /\ [][NextDrain]_vars /\ DrainFairness

\* ------------------------------------------------------------------- claims
QueueBag == qVisible (+) qInflight
Enqueued(k) == \E m \in BagToSet(QueueBag) : m.key = k /\ m.eventName = "ObjectCreated"

\* C1: an execution whose fetched object carries an entity tag different from
\* the notification's has ended with an error, has made no index write and
\* never reaches esIndex.
C1_ConsistencyGuard ==
    \A p \in Procs :
        (proc[p].fetched # Absent /\ Slice1(StoreETag(proc[p].fetched)) # proc[p].ev.eTag)
            => /\ proc[p].pc = "done"
               /\ proc[p].err # ""
               /\ proc[p].effect = "none"
               /\ proc[p].json = Absent

C1_Witness ==
    \E p \in Procs :
        /\ proc[p].fetched # Absent
        /\ Slice1(StoreETag(proc[p].fetched)) # proc[p].ev.eTag
        /\ proc[p].caller = "s3"
        /\ proc[p].err = "eTagDiffers"

\* C2: while a document exists its stored version equals the maximum of the
\* versions esIndex returned normally for (applied or answered 409), and no
\* step lowers the stored version of an existing document.
C2_MonotonicVersion ==
    /\ [](\A k \in ItemKeys : applied[k] # {} => index[k] = SetMax(applied[k]))
    /\ [][\A k \in ItemKeys : (index[k] # 0 /\ index'[k] # 0) => index'[k] >= index[k]]_vars

C2_Witness ==
    \E p \in Procs :
        /\ proc[p].pc = "done"
        /\ proc[p].err = ""
        /\ proc[p].effect = "conflict"
        /\ Cardinality(applied[proc[p].key]) >= 2
        /\ proc[p].json.version < index[proc[p].key]

\* C3 as stated: a DeleteMessage happens only after the replay of that message
\* returned without error having applied an index write or delete, absorbed a
\* version conflict or found the source object absent.
C3_Original ==
    [][numProcessed' = numProcessed + 1
         => /\ dResult.ev = dMsg
            /\ dResult.err = ""
            /\ dResult.effect \in {"indexed", "deleted", "conflict", "gone"}]_vars

\* C3 amended: a DeleteMessage happens only after the replay of that message
\* returned without error; besides the effects above the replay may have found
\* no document to delete (404) or skipped the notification (reserved key,
\* unhandled event type).
C3_AckOnlyAfterSuccess ==
    [][numProcessed' = numProcessed + 1
         => /\ dResult.ev = dMsg
            /\ dResult.err = ""
            /\ dResult.effect \in {"indexed", "deleted", "conflict", "gone",
                                   "notFound", "filtered", "ignored"}]_vars

C3_Witness ==
    /\ numProcessed > 0
    /\ dpc = "loop"
    /\ dResult.ev = dMsg
    /\ dResult.effect = "notFound"

\* C4: when the replay of the leased message fails with the eTag mismatch, the
\* drainer goes on to delete that message.
C4_DeleteOnMismatch ==
    [][(dpc = "wait" /\ dpc' # "wait" /\ IsETagMismatch(dResult'.err)) => dpc' = "delete"]_vars

\* C7: when the replay fails with anything but the eTag mismatch, or a queue or
\* invoker call throws, the invocation ends there in StoppedOnError (a normal
\* return), the queue keeps every message and nothing is counted as processed.
C7_StopOnError ==
    [][(dpc # "idle" /\ dResult'.err # "" /\ ~IsETagMismatch(dResult'.err))
         => /\ dpc' = "idle"
            /\ dOutcome' = "StoppedOnError"
            /\ QueueBag' = QueueBag
            /\ qInflight' = qInflight
            /\ numProcessed' = numProcessed]_vars

C7_Witness ==
    /\ dpc = "idle"
    /\ dOutcome = "StoppedOnError"
    /\ dResult.err = "ESError"
    /\ BagIn(dMsg, qInflight)

C5_Resumable ==
    (rOutcome = "Completed")
        => \A K \in stops : \A k \in ItemKeys : (k > K /\ Present(k)) => Enqueued(k)

\* C6: the checkpoint advances to a page's last key only when every entry of
\* every batch of that page was enqueued.
C6_CheckpointBarrier ==
    [][(ckpt' # ckpt /\ ckpt'.exists /\ ckpt'.lastKey # NoKey)
         => RangeOf(rPage) \subseteq rSent]_vars

\* C9: a checkpoint holding lastKey = K is never overwritten with an empty
\* record.
C9_NoReset ==
    [][(ckpt.exists /\ ckpt.lastKey # NoKey) => ~(ckpt'.exists /\ ckpt'.lastKey = NoKey)]_vars

\* C10: an invocation whose listing yields no further page ends Completed with
\* the checkpoint record deleted.
C10_Completion ==
    (rpc = "idle" /\ rListing = "empty") => (rOutcome = "Completed" /\ ~ckpt.exists)

Last(seq) == seq[Len(seq)]
\* the invocation has ended without completing: forced stop, exception or kill
RunCutShort == runs > 0 /\ rpc = "idle" /\ rOutcome # "Completed"

\* C11: the checkpoint record is deleted only by a run whose last listing was
\* not truncated; after a run that ended by forced stop the record exists and
\* holds the last key of the page processed last, and whenever a run was cut
\* short with the record holding the last key of its last page, every entry of
\* that page's batches was enqueued.
C11_DeletedOnlyWhenExhausted ==
    /\ [][(ckpt.exists /\ ~ckpt'.exists)
            => (rpc = "end" /\ ~rForceStop /\ rListing = "page" /\ ~rTruncated)]_vars
    /\ []((RunCutShort /\ rOutcome = "Redeliver" /\ rPage # <<>>)
            => (ckpt.exists /\ ckpt.lastKey = Last(rPage)))
    /\ []((RunCutShort /\ rPage # <<>> /\ ckpt.exists /\ ckpt.lastKey = Last(rPage))
            => RangeOf(rPage) \subseteq rSent)

\* C12: an invocation returns plain success only after a listing that was not
\* truncated; a forced stop happens only below the margin, returns the
\* redelivery signal and leaves the request to be delivered again.
C12_ReturnSignal ==
    /\ [](rOutcome = "Completed"
            => (rListing = "page" /\ ~rTruncated /\ ~rForceStop /\ ~reqPending))
    /\ [][(rpc = "loop" /\ rpc' = "end" /\ rForceStop') => rRemaining < ReindexMargin]_vars
    /\ [][(rpc = "end" /\ rForceStop /\ rpc' = "idle" /\ rOutcome' # "Crashed")
            => (rOutcome' = "Redeliver" /\ reqPending' /\ ckpt' = ckpt)]_vars

C12_Witness ==
    /\ rpc = "idle"
    /\ rOutcome = "Redeliver"
    /\ rTruncated
    /\ rPage # <<>>
    /\ reqPending

\* C13: with the remaining time at or below the margin the drainer issues no
\* receive: the only thing it does at the top of the loop is to end the loop,
\* leaving the queue as it is.  The end of an invocation removes nothing from
\* the queue and releases no lease, and a message leaves the queue only by the
\* acknowledgement that follows its error-free replay; a leased message that
\* was not acknowledged is therefore still queued when its lease runs out.
C13_DrainTimeSafety ==
    /\ [][(dpc = "loop" /\ dRemaining <= DlqMargin /\ dlqVars' # dlqVars)
            => (dpc' = "idle" /\ dOutcome' = "StoppedOnTimeout"
                /\ qVisible' = qVisible /\ qInflight' = qInflight)]_vars
    /\ [][(dpc # "idle" /\ dpc' = "idle")
            => (qVisible' = qVisible /\ qInflight' = qInflight)]_vars
    /\ [][\A m \in BagToSet(QueueBag) :
            CopiesIn(m, QueueBag') < CopiesIn(m, QueueBag)
                => (m = dMsg /\ dpc = "delete" /\ dResult.err = ""
                    /\ numProcessed' = numProcessed + 1)]_vars

C13_Witness ==
    /\ dpc = "idle"
    /\ dOutcome = "StoppedOnTimeout"
    /\ dResult.err = "eTagDiffers"
    /\ dResult.ev = dMsg
    /\ BagIn(dMsg, qVisible)
    /\ ~BagIn(dMsg, qInflight)

\* C14: esDelete of an id that has no document returns normally and leaves the
\* index as it is, so the Removed notification completes without error; a
\* second esDelete after a first one finds the index as the first left it
\* and leaves it so.
C14_DeleteIdempotent ==
    /\ [](\A k \in SyncKeys :
            LET once == EsDeleteResult(index, k, TRUE)
                twice == EsDeleteResult(once.index, k, TRUE) IN
            /\ index[k] = 0 => (once.err = "" /\ once.index = index)
            /\ once.err = "" /\ twice.err = "" /\ twice.index = once.index)
    /\ [][\A p \in Procs :
            (proc[p].pc = "esDelete" /\ proc'[p].pc = "done" /\ index[proc[p].key] = 0
             /\ proc'[p].err # "ESError")
                => (proc'[p].err = "" /\ proc'[p].effect = "notFound" /\ index' = index)]_vars
    /\ [](\A p \in Procs : proc[p].effect = "notFound" => proc[p].err = "")

C14_Witness ==
    \E p \in Procs :
        /\ proc[p].pc = "done"
        /\ IsRemoved(proc[p].ev.eventName)
        /\ proc[p].effect = "notFound"
        /\ proc[p].caller = "s3"
        /\ index[proc[p].key] = 0

\* notifications waiting for an execution: undelivered or in the retry queue
Waiting == notifs \cup BagToSet(QueueBag)

\* C15: a Created notification whose object the store reports as not found
\* ends the execution at once without error, before any engine call, and the
\* index is as it was; in a drain cycle the drainer goes on to DeleteMessage
\* and the acknowledged message is no longer in the queue.
C15_ObjectGone ==
    /\ [](\A ev \in Waiting :
            (IsCreated(ev.eventName) /\ ev.key \in ItemKeys /\ store[ev.key] = Absent)
                => LET r == FetchResult(ev, store, TRUE) IN
                   r.next = "done" /\ r.err = "" /\ r.effect = "gone")
    /\ [](\A p \in Procs : proc[p].effect = "gone" => (proc[p].pc = "done" /\ proc[p].err = ""))
    /\ [][\A p \in Procs : (proc[p].pc = "idle" /\ proc'[p].effect = "gone") => index' = index]_vars
    /\ [][(dpc = "wait" /\ dpc' # "wait" /\ dResult'.effect = "gone")
            => (dpc' = "delete" /\ dResult'.ev = dMsg)]_vars
    /\ [][(dpc = "delete" /\ dResult.effect = "gone" /\ dpc' = "loop")
            => (CopiesIn(dMsg, QueueBag') = CopiesIn(dMsg, QueueBag) - 1
                /\ numProcessed' = numProcessed + 1)]_vars

C15_Witness ==
    /\ dpc = "loop"
    /\ numProcessed = 1
    /\ dResult.effect = "gone"
    /\ dResult.ev = dMsg
    /\ IsCreated(dMsg.eventName)
    /\ store[dMsg.key] = Absent
    /\ ~BagIn(dMsg, QueueBag)

RECURSIVE ConcatBatches(_, _)
\* the entries of batches 1..n of a page, in the order they were cut
ConcatBatches(page, n) ==
    IF n = 0 THEN <<>> ELSE ConcatBatches(page, n - 1) \o Batch(page, n)

\* C17: every batch cut from a listed page holds between 1 and 10 entries,
\* and the batches of the page, one after the other, are the page itself:
\* each listed key is in exactly one batch, once.
C17_BatchSizing ==
    (rPage # <<>>)
        => /\ \A b \in 1..NumBatches(rPage) :
                /\ Len(Batch(rPage, b)) >= 1
                /\ Len(Batch(rPage, b)) <= 10
           /\ ConcatBatches(rPage, NumBatches(rPage)) = rPage
           /\ Cardinality(RangeOf(rPage)) = Len(rPage)

C17_Witness ==
    /\ rpc = "put"
    /\ NumBatches(rPage) = 2
    /\ Len(Batch(rPage, 1)) = 10
    /\ Len(Batch(rPage, 2)) < 10
    /\ rSent = RangeOf(rPage)

\* C19: an engine answer other than success or 409 to the upsert, or other than
\* success or 404 to the delete, ends the execution with the engine's error and
\* without index change; the notification of a failed execution is then in
\* the retry queue: put there when the s3 invocation failed, left there
\* un-acknowledged when the failure was that of a replay.
C19_EngineFailuresPropagate ==
    /\ [](\A k \in SyncKeys, v \in Versions :
            /\ EsIndexResult(index, k, v, FALSE) = [index |-> index, err |-> "ESError", effect |-> "none"]
            /\ EsDeleteResult(index, k, FALSE) = [index |-> index, err |-> "ESError", effect |-> "none"])
    /\ [][\A p \in Procs :
            (proc[p].pc \in {"esIndex", "esDelete"} /\ proc'[p].pc = "done" /\ proc'[p].effect = "none")
                => (proc'[p].err = "ESError" /\ index' = index)]_vars
    /\ [][\A p \in Procs :
            (proc[p].pc = "done" /\ proc[p].err = "ESError" /\ proc'[p].pc = "idle")
                => BagIn(proc[p].ev, QueueBag')]_vars

C19_Witness ==
    \E p \in Procs :
         /\ proc[p].pc = "done"
         /\ proc[p].caller = "dlq"
         /\ IsRemoved(proc[p].ev.eventName)
         /\ proc[p].err = "ESError"
         /\ proc[p].effect = "none"
         /\ BagIn(proc[p].ev, QueueBag)

\* C16: a notification with the reserved key, Created or Removed, delivered
\* by the store or built by the orchestrator and replayed from the retry
\* queue, ends the execution at once without error whatever the store would
\* answer: nothing is fetched, no engine call follows and the index is as it
\* was; its replay is acknowledged like any success.
C16_ReservedKeyFiltered ==
    /\ [](\A ev \in Waiting : IsReservedKey(ev.key)
            => \A storeUp \in BOOLEAN :
                 FetchResult(ev, store, storeUp)
                     = [next |-> "done", err |-> "", effect |-> "filtered",
                        fetched |-> Absent, json |-> Absent])
    /\ [](\A p \in Procs : (proc[p].pc # "idle" /\ IsReservedKey(proc[p].key))
            => (proc[p].pc = "done" /\ proc[p].err = "" /\ proc[p].effect = "filtered"
                /\ proc[p].fetched = Absent))
    /\ [][\A p \in Procs : (proc[p].pc = "idle" /\ IsReservedKey(proc'[p].key))
            => index' = index]_vars
    /\ [][(dpc = "wait" /\ dpc' # "wait" /\ IsReservedKey(dResult'.ev.key)) => dpc' = "delete"]_vars

C16_Witness ==
    /\ dpc = "loop"
    /\ numProcessed = 1
    /\ dResult.ev = SyntheticEvent(StatusKey, EntryETag(StatusKey))
    /\ dResult.effect = "filtered"
    /\ QueueBag = EmptyBag
    /\ \E p \in Procs :
         /\ proc[p].pc = "done"
         /\ proc[p].caller = "s3"
         /\ proc[p].ev = RemovedEvent(StatusKey)
         /\ proc[p].effect = "filtered"
    /\ \E k \in SyncKeys : index[k] # 0

\* the engine call of this execution repeats one that has already had its
\* effect: the payload's version was applied or absorbed before, or the
\* document is already deleted
Repeats(pr) ==
    IF pr.pc = "esIndex" THEN pr.json.version \in applied[pr.key]
    ELSE pr.pc = "esDelete" /\ index[pr.key] = 0

\* C20: replaying a message a second time leaves the index as the first
\* replay left it and the second replay does not fail for having been
\* preceded: an upsert after the same upsert is absorbed as a conflict, a
\* delete after the same delete as not found.  With two drain invocations
\* replaying the same message at once, the engine call that comes second
\* changes nothing and fails only if the engine itself fails.
C20_DoubleProcessing ==
    /\ [](\A k \in SyncKeys, v \in Versions :
            LET once == EsIndexResult(index, k, v, TRUE)
                twice == EsIndexResult(once.index, k, v, TRUE) IN
            /\ once.err = ""
            /\ twice = [index |-> once.index, err |-> "", effect |-> "conflict"])
    /\ [](\A k \in SyncKeys :
            LET once == EsDeleteResult(index, k, TRUE)
                twice == EsDeleteResult(once.index, k, TRUE) IN
            /\ once.err = ""
            /\ twice = [index |-> once.index, err |-> "", effect |-> "notFound"])
    /\ [][\A p \in Procs :
            (Repeats(proc[p]) /\ proc'[p].pc = "done")
                => /\ index' = index
                   /\ proc'[p].effect \in {"conflict", "notFound", "none"}
                   /\ proc'[p].effect = "none" <=> proc'[p].err = "ESError"]_vars

C20_Witness ==
    \E p, q \in Procs :
        /\ proc[p].caller = "dlq"
        /\ proc[q].caller = "dlq2"
        /\ proc[p].ev = proc[q].ev
        /\ proc[p].pc = "done"
        /\ proc[q].pc = "done"
        /\ proc[p].effect = "conflict"
        /\ proc[q].effect = "indexed"
        /\ proc[p].fetched = proc[q].fetched

\* C18: the id given to the engine for a notification is the notification's
\* object key, for Created as for Removed, and distinct object keys give
\* distinct ids.
C18_DocumentAddressing ==
    /\ (aId # NoId) => (aId = aEvent.key)
    /\ \A k1, k2 \in AddrKeys : (k1 # k2) => (EsDeleteId(k1) # EsDeleteId(k2))

\* C21: every object under the prefix whose key sorts at or before the lastKey
\* of the persisted checkpoint has been enqueued.
C21_CheckpointCoverage ==
    (ckpt.exists /\ ckpt.lastKey # NoKey)
        => \A k \in AllKeys : (k <= ckpt.lastKey /\ Present(k)) => Enqueued(k)

\* C22: the margin at which the drainer stops leasing exceeds the visibility
\* lease plus the longest replay, and no invocation is stopped by the platform
\* in the middle of a lease-and-replay cycle.
C22_SafetyMargin ==
    /\ (dpc \in {"invoke", "delete"}) => (DlqMargin > VisibilityTimeout + FunctionTimeout)
    /\ dOutcome # "Killed"

\* every notification has been delivered and processed and none is waiting
\* for a retry
Settled ==
    /\ notifs = {}
    /\ QueueBag = EmptyBag
    /\ \A p \in Procs : proc[p].pc = "idle"
    /\ dpc = "idle"

\* C23: once every notification of a key has been processed and none is
\* pending, the index holds a document for the key exactly when the store
\* holds the object, and then with the version of the stored payload.
C23_Convergence ==
    Settled
        => \A k \in SyncKeys :
             /\ (index[k] # 0) <=> (store[k] # Absent)
             /\ (store[k] # Absent) => (index[k] = store[k].version)

\* no execution and no drain invocation holds an error answered by the store,
\* the search engine, the queue or the invoker
Available ==
    /\ \A p \in Procs : proc[p].err \notin {"S3Error", "ESError"}
    /\ dResult.err \notin {"QueueError", "InvokeError"}

\* C24: while the store, the search engine and the queue answer without error
\* and nothing new arrives, recurring drain invocations eventually empty the
\* retry queue and a drain cycle ends in StoppedOnEmpty on the empty queue.
C24_DrainLiveness ==
    ([]Available) => <>(QueueBag = EmptyBag /\ dOutcome = "StoppedOnEmpty")

TerminalStates == {"StoppedOnTimeout", "StoppedOnEmpty", "StoppedOnError"}

\* C25: a drain invocation that is over has ended in StoppedOnTimeout,
\* StoppedOnEmpty or StoppedOnError, its remaining time decreases across every
\* queue and replay operation, and its processed counter starts at zero and
\* grows by one exactly with each DeleteMessage that returned.
C25_DrainTermination ==
    /\ []((dpc = "idle" /\ dOutcome # "none") => dOutcome \in TerminalStates)
    /\ [][(dpc \in {"loop", "invoke", "delete"} /\ dpc' # "idle" /\ dpc' # dpc)
              => dRemaining' < dRemaining]_vars
    /\ [][numProcessed' # numProcessed
              => \/ dpc = "idle" /\ numProcessed' = 0
                 \/ dpc = "delete" /\ dpc' = "loop" /\ numProcessed' = numProcessed + 1]_vars

====
